---- MODULE Spec2Model ----
(***************************************************************************)
(* A model of the mesh package: the MESH record parser (mesh/reader.py),   *)
(* the descriptor and chemical extractors (mesh/descriptors_reader.py,     *)
(* mesh/chemicals_reader.py), the enrichers (mesh/enrichers) and           *)
(* Dataset.build (mesh/dataset.py).                                        *)
(*                                                                         *)
(* A Python str is a sequence of one-character strings.  An Optional[T]    *)
(* is a sequence of length 0 (None) or 1 (the value).  A raised exception  *)
(* is the name of its class.                                               *)
(***************************************************************************)
EXTENDS Naturals, Sequences, FiniteSets, TLC

VARIABLES
    reader,             \* which iterator consumes the file
    allowed,            \* the settings: allowed root letters and subtree codes
    downloads,          \* Dataset.build: the descriptors and the chemicals file
    enrichment_procedures,  \* the settings: List[Enricher]
    file,               \* the lines of the file that is read, each with its newline
    pos,                \* index of the next line `for line in file` yields
    record,             \* MESHReader.__iter__: Optional[MESHRecord]
    yielded,            \* the records MESHReader.__iter__ has yielded
    descriptors,        \* Dataset.build: List[MESHDescriptor]
    mesh_dag_numbers,   \* Dataset.build: the path lookup (dict)
    di,                 \* Dataset.build: index of the descriptor of loop 210
    mesh_dag,           \* Dataset.build: (child, parent) rows
    chemicals,          \* Dataset.build: List[MESHChemical]
    ei,                 \* Dataset.build: index of the enricher of loop 152
    ej,                 \* Dataset.build: index of the entry of loops 159-162
    chemicals_to_descriptors,   \* Dataset.build: (chemical, descriptor) rows
    entity,             \* a client of the enrichers: the entry it enriches
    calls,              \* a client of the enrichers: the calls it has made
    pc,                 \* position of the program
    error               \* the exception that ended the run and where it was raised

vars == <<reader, allowed, downloads, enrichment_procedures, file, pos, record,
          yielded, descriptors, mesh_dag_numbers, di, mesh_dag, chemicals, ei, ej,
          chemicals_to_descriptors, entity, calls, pc, error>>

----------------------------------------------------------------------------
(* Bounds of the model.                                                    *)

MaxLines == 3
MaxRecords == 2
MaxCalls == 3

----------------------------------------------------------------------------
(* Optional values and call results.                                       *)

None == <<>>
Some(x) == <<x>>
Get(o) == o[1]

NoError == [exc |-> "", at |-> ""]
Raised(e, where) == [exc |-> e, at |-> where]

Ok(v) == [exc |-> "", val |-> v]
Raise(e) == [exc |-> e, val |-> <<>>]

----------------------------------------------------------------------------
(* Characters and the str methods the code calls.                          *)

NL == "\n"
SuperscriptTwo == "sup2"    \* the one character U+00B2
Whitespace == {" ", "\t", NL}
DecimalDigits == {"0", "1", "2", "3", "4", "5", "6", "7", "8", "9"}

\* str.isdigit is true of the Unicode digits, which are the decimal digits
\* and the digits of Numeric_Type=Digit such as the superscripts.
isdigit(s) ==
    /\ Len(s) > 0
    /\ \A i \in 1..Len(s) : s[i] \in DecimalDigits \cup {SuperscriptTwo}

RECURSIVE lstrip(_, _)
lstrip(s, chars) ==
    IF s # <<>> /\ Head(s) \in chars THEN lstrip(Tail(s), chars) ELSE s

RECURSIVE rstrip(_, _)
rstrip(s, chars) ==
    IF s # <<>> /\ s[Len(s)] \in chars
    THEN rstrip(SubSeq(s, 1, Len(s) - 1), chars)
    ELSE s

strip(s) == rstrip(lstrip(s, Whitespace), Whitespace)

\* str.strip(chars): the characters of chars are removed at both ends.
strip_chars(s, chars) == rstrip(lstrip(s, chars), chars)

startswith(s, prefix) ==
    /\ Len(prefix) <= Len(s)
    /\ SubSeq(s, 1, Len(prefix)) = prefix

\* str.find: the least index at which sub occurs in s, 0 when it does not.
find(s, sub) ==
    LET at == {i \in 1..(Len(s) + 1 - Len(sub)) :
                  SubSeq(s, i, i + Len(sub) - 1) = sub}
    IN  IF Len(sub) > Len(s) \/ at = {} THEN 0
        ELSE CHOOSE i \in at : \A j \in at : i <= j

contains(s, sub) == find(s, sub) # 0

\* A faulty split1: the split is at the last occurrence of sep.
split1_last(s, sep) ==
    LET at == {i \in 1..Len(s) :
                  i + Len(sep) - 1 <= Len(s) /\ SubSeq(s, i, i + Len(sep) - 1) = sep}
        i == CHOOSE k \in at : \A j \in at : j <= k
    IN  IF at = {} THEN <<s>>
        ELSE <<SubSeq(s, 1, i - 1), SubSeq(s, i + Len(sep), Len(s))>>

\* str.split(sep, 1): at most one split, at the first occurrence of sep.
split1(s, sep) ==
    LET i == find(s, sep)
    IN  IF i = 0 THEN <<s>>
        ELSE <<SubSeq(s, 1, i - 1), SubSeq(s, i + Len(sep), Len(s))>>

\* str.split(sep): every piece between the occurrences of sep.
RECURSIVE split(_, _)
split(s, sep) ==
    LET i == find(s, sep)
    IN  IF i = 0 THEN <<s>>
        ELSE <<SubSeq(s, 1, i - 1)>>
                 \o split(SubSeq(s, i + Len(sep), Len(s)), sep)

\* sep.join(parts)
RECURSIVE join(_, _)
join(sep, parts) ==
    IF parts = <<>> THEN <<>>
    ELSE IF Len(parts) = 1 THEN parts[1]
    ELSE parts[1] \o sep \o join(sep, Tail(parts))

----------------------------------------------------------------------------
(* The text of the format.                                                 *)

NEWRECORD == <<"*", "N", "E", "W", "R", "E", "C", "O", "R", "D">>
Separator == <<" ", "=", " ">>
Dot == <<".">>
RECTYPE == <<"R", "E", "C", "T", "Y", "P", "E">>
UI == <<"U", "I">>
MH == <<"M", "H">>
MN == <<"M", "N">>
NM == <<"N", "M">>
HM == <<"H", "M">>
PA == <<"P", "A">>
Slash == <<"/">>
Hyphen == <<"-">>
RecordTypes == {<<"C">>, <<"D">>, <<"Q">>}

----------------------------------------------------------------------------
(* MESHRecord.                                                             *)

MESHRecord == [record_type |-> None, unique_identifier |-> None, record |-> <<>>]

\* A faulty is_complete: a record without any field counts as complete.
is_complete_no_fields(r) ==
    /\ r.record_type # None
    /\ r.unique_identifier # None

is_complete(r) ==
    /\ r.record_type # None
    /\ r.unique_identifier # None
    /\ Cardinality(DOMAIN r.record) > 0

\* The property record_type: asserts the type is set, then returns it.
record_type(r) ==
    IF r.record_type = None THEN Raise("AssertionError")
    ELSE Ok(Get(r.record_type))

\* The property unique_identifier: asserts the identifier is set.
record_unique_identifier(r) ==
    IF r.unique_identifier = None THEN Raise("AssertionError")
    ELSE Ok(Get(r.unique_identifier))

\* A faulty set_record_type: a type that is set may be set again.
set_record_type_again(r, value) ==
    IF value \notin RecordTypes THEN Raise("AssertionError")
    ELSE Ok([r EXCEPT !.record_type = Some(value)])

set_record_type(r, value) ==
    IF r.record_type # None THEN Raise("AssertionError")
    ELSE IF value \notin RecordTypes THEN Raise("AssertionError")
    ELSE Ok([r EXCEPT !.record_type = Some(value)])

set_unique_identifier(r, value) ==
    IF r.unique_identifier # None THEN Raise("AssertionError")
    ELSE IF r.record_type = None THEN Raise("AssertionError")
    ELSE IF ~startswith(value, Get(r.record_type)) THEN Raise("AssertionError")
    ELSE IF ~isdigit(SubSeq(value, 2, Len(value))) THEN Raise("AssertionError")
    ELSE Ok([r EXCEPT !.unique_identifier = Some(value)])

\* A faulty __getitem__: a missing key gives one empty value.
getitem_or_empty(r, key) ==
    IF key \notin DOMAIN r.record THEN Ok(<< <<>> >>)
    ELSE Ok(r.record[key])

\* MESHRecord.__getitem__
getitem(r, key) ==
    IF key \notin DOMAIN r.record THEN Raise("AssertionError")
    ELSE Ok(r.record[key])

\* MESHRecord.get
get(r, key, default) ==
    IF key \in DOMAIN r.record THEN r.record[key] ELSE default

add_key_value(r, key, value) ==
    IF Len(key) = 0 THEN Raise("AssertionError")
    ELSE IF Len(value) = 0 THEN Raise("AssertionError")
    ELSE Ok([r EXCEPT !.record =
                [k \in DOMAIN r.record \cup {key} |->
                    IF k = key
                    THEN (IF key \in DOMAIN r.record
                          THEN Append(r.record[key], value)
                          ELSE <<value>>)
                    ELSE r.record[k]]])

----------------------------------------------------------------------------
(* MESHReader.__iter__: what one line does to the open record.             *)

\* Lines 115 to 130, for a stripped line that is neither blank nor the
\* sentinel.  A method called on record = None raises AttributeError.
key_value_line(rec, line) ==
    IF ~contains(line, Separator) THEN Raise("AssertionError")
    ELSE LET kv == split1(line, Separator)
             key == kv[1]
             value == kv[2]
         IN  IF Len(key) = 0 THEN Raise("AssertionError")
             ELSE IF Len(value) = 0 THEN Raise("AssertionError")
             ELSE IF rec = None THEN Raise("AttributeError")
             ELSE IF key = RECTYPE THEN set_record_type(Get(rec), value)
             ELSE IF key = UI THEN set_unique_identifier(Get(rec), value)
             ELSE add_key_value(Get(rec), key, value)

----------------------------------------------------------------------------
(* MESHDescriptorsReader.__iter__: the pure parts.                         *)

Elements(list) == {list[i] : i \in 1..Len(list)}

\* A faulty condition: the subtree code is not looked at.
retained_by_letter(tree_number, settings) ==
    <<tree_number[1]>> \in Elements(settings.allowed_root_letters)

\* descriptors_reader.py 145-146: the condition of the comprehension.
retained(tree_number, settings) ==
    /\ <<tree_number[1]>> \in Elements(settings.allowed_root_letters)
    /\ split(tree_number, Dot)[1] \in Elements(settings.allowed_mesh_dag_numbers)

\* descriptors_reader.py 142-147: the list comprehension.
RECURSIVE filter_mesh_dag_numbers(_, _)
filter_mesh_dag_numbers(tree_numbers, settings) ==
    IF tree_numbers = <<>> THEN <<>>
    ELSE IF retained(Head(tree_numbers), settings)
    THEN <<split(Head(tree_numbers), Dot)>>
             \o filter_mesh_dag_numbers(Tail(tree_numbers), settings)
    ELSE filter_mesh_dag_numbers(Tail(tree_numbers), settings)

\* mesh.utils.normalize_string: the leading and trailing whitespace is
\* removed and every run of whitespace becomes one space.
RECURSIVE collapse(_)
collapse(s) ==
    IF s = <<>> THEN <<>>
    ELSE IF Head(s) \notin Whitespace THEN <<Head(s)>> \o collapse(Tail(s))
    ELSE IF Len(s) >= 2 /\ s[2] \in Whitespace THEN collapse(Tail(s))
    ELSE <<" ">> \o collapse(Tail(s))

normalize_string(s) == collapse(strip(s))

\* MESHDescriptor.__init__: the chemistry fields are None.  The class is
\* taken as instantiable, although the interface MaybeChemical declares an
\* abstract method set_inchikey that the class does not define.
MESHDescriptor(name, unique_identifier, tree_numbers) ==
    [class |-> "MESHDescriptor",
     name |-> name,
     unique_identifier |-> unique_identifier,
     mesh_dag_numbers |-> tree_numbers,
     compound_id |-> None,
     substance_id |-> None,
     smiles |-> None,
     inchi |-> None,
     inchikey |-> None]

has_mesh_dag_numbers(descriptor) == Len(descriptor.mesh_dag_numbers) > 0

\* descriptors_reader.py 140-157 for one record: the descriptors it yields
\* (none or one), or the exception it raises.
descriptor_of(rec, settings) ==
    IF record_type(rec).exc # "" THEN Raise(record_type(rec).exc)
    ELSE IF record_type(rec).val # <<"D">> THEN Raise("AssertionError")
    ELSE IF getitem(rec, MH).exc # "" THEN Raise(getitem(rec, MH).exc)
    ELSE IF record_unique_identifier(rec).exc # "" THEN Raise(record_unique_identifier(rec).exc)
    ELSE LET descriptor ==
                 MESHDescriptor(
                     normalize_string(getitem(rec, MH).val[1]),
                     record_unique_identifier(rec).val,
                     filter_mesh_dag_numbers(get(rec, MN, <<>>), settings))
         IN  IF ~has_mesh_dag_numbers(descriptor) THEN Ok(<<>>)
             ELSE Ok(<<descriptor>>)

----------------------------------------------------------------------------
(* MESHChemicalsReader.__iter__: the pure parts.                           *)

\* MESHChemical.__init__: the chemistry fields are None.
MESHChemical(name, unique_identifier, actions, headings) ==
    [class |-> "MESHChemical",
     name |-> name,
     unique_identifier |-> unique_identifier,
     pharmacological_actions |-> actions,
     descriptors |-> headings,
     compound_id |-> None,
     substance_id |-> None,
     smiles |-> None,
     inchi |-> None,
     inchikey |-> None]

\* chemicals_reader.py 135-137: each PA value up to its first hyphen.
pharmacological_actions_of(values) ==
    [i \in 1..Len(values) |-> split(values[i], Hyphen)[1]]

\* A faulty token: the piece up to its first hyphen, not stripped.
heading_of_unstripped(piece) == split(piece, Hyphen)[1]

\* chemicals_reader.py 141: the token of one piece of an HM value.
heading_of(piece) == strip_chars(split(piece, Hyphen)[1], {" ", "*"})

\* chemicals_reader.py 140-147: the inner loop over the pieces of one HM
\* value, from the list of descriptors so far.
RECURSIVE headings_of(_, _)
headings_of(pieces, list) ==
    IF pieces = <<>> THEN Ok(list)
    ELSE LET heading == heading_of(Head(pieces))
         IN  IF startswith(heading, <<"Q">>) THEN headings_of(Tail(pieces), list)
             ELSE IF startswith(heading, <<"D">>)
             THEN headings_of(Tail(pieces), Append(list, heading))
             ELSE Raise("ValueError")

\* chemicals_reader.py 138-147: the loop over the HM values.
RECURSIVE descriptors_of(_, _)
descriptors_of(values, list) ==
    IF values = <<>> THEN Ok(list)
    ELSE LET res == headings_of(split(Head(values), Slash), list)
         IN  IF res.exc # "" THEN res
             ELSE descriptors_of(Tail(values), res.val)

\* chemicals_reader.py 129-156 for one record: the chemical it yields, or
\* the exception it raises.
chemical_of(rec) ==
    IF record_type(rec).exc # "" THEN Raise(record_type(rec).exc)
    ELSE IF record_type(rec).val # <<"C">> THEN Raise("AssertionError")
    ELSE IF getitem(rec, NM).exc # "" THEN Raise(getitem(rec, NM).exc)
    ELSE LET headings == descriptors_of(get(rec, HM, <<>>), <<>>)
         IN  IF headings.exc # "" THEN headings
             ELSE IF record_unique_identifier(rec).exc # ""
             THEN Raise(record_unique_identifier(rec).exc)
             ELSE Ok(<<MESHChemical(
                         normalize_string(getitem(rec, NM).val[1]),
                         record_unique_identifier(rec).val,
                         pharmacological_actions_of(get(rec, PA, <<>>)),
                         headings.val)>>)

----------------------------------------------------------------------------
(* The entities as MaybeChemical, and the enrichers.                       *)

\* MESHQualifier.__init__: a qualifier is not a MaybeChemical.
MESHQualifier(name, unique_identifier) ==
    [class |-> "MESHQualifier", name |-> name, unique_identifier |-> unique_identifier]

\* isinstance(entry, MaybeChemical)
isinstance_MaybeChemical(entry) == entry.class \in {"MESHDescriptor", "MESHChemical"}

\* MESHDescriptor.maybe_chemical: the subtree codes of the chemicals.
haystack == {
    <<"D", "0", "1">>, <<"D", "0", "2">>, <<"D", "0", "3">>, <<"D", "0", "4">>,
    <<"D", "0", "5">>, <<"D", "0", "6">>, <<"D", "0", "8">>, <<"D", "0", "9">>,
    <<"D", "1", "0">>, <<"D", "1", "2">>, <<"D", "1", "3">>, <<"D", "2", "0">>
}

\* A faulty maybe_chemical of a descriptor: every path has to start with a
\* subtree code of the chemicals.
maybe_chemical_every_path(entry) ==
    IF entry.class = "MESHChemical" THEN TRUE
    ELSE \A i \in 1..Len(entry.mesh_dag_numbers) :
             entry.mesh_dag_numbers[i][1] \in haystack

\* MESHDescriptor.maybe_chemical and MESHChemical.maybe_chemical
maybe_chemical(entry) ==
    IF entry.class = "MESHChemical" THEN TRUE
    ELSE \E i \in 1..Len(entry.mesh_dag_numbers) :
             entry.mesh_dag_numbers[i][1] \in haystack

\* A faulty chemical_name: the identifier instead of the name.
chemical_name_identifier(entry) == entry.unique_identifier

\* MESHDescriptor.chemical_name and MESHChemical.chemical_name
chemical_name(entry) == entry.name

\* The setters.  The identifiers come from int(...) in the constructors of
\* the enrichers, so the isinstance assertions of MESHChemical hold.
set_compound_id(entry, compound_id) == [entry EXCEPT !.compound_id = Some(compound_id)]
set_substance_id(entry, substance_id) == [entry EXCEPT !.substance_id = Some(substance_id)]
set_smiles(entry, smiles) == [entry EXCEPT !.smiles = Some(smiles)]
set_inchi_and_inchikey(entry, inchi, inchikey) ==
    [entry EXCEPT !.inchi = Some(inchi), !.inchikey = Some(inchikey)]

\* dict.get(key, None)
dict_get(dict, key) == IF key \in DOMAIN dict THEN Some(dict[key]) ELSE None

\* The enrichers after construction: the tables read from the files.
CompoundIdEnricher(compounds, substances) ==
    [class |-> "CompoundIdEnricher",
     compound_id_to_mesh |-> compounds,
     substance_id_to_mesh |-> substances]
SMILESEnricher(table) ==
    [class |-> "SMILESEnricher", compound_id_to_smiles |-> table]
InChIKeyEnricher(table) ==
    [class |-> "InChIKeyEnricher", compound_id_to_inchi |-> table]

\* A faulty CompoundIdEnricher.enrich: a lookup that misses resets the field.
CompoundIdEnricher_enrich_resets(self, entry) ==
    IF ~isinstance_MaybeChemical(entry) THEN entry
    ELSE IF ~maybe_chemical(entry) THEN entry
    ELSE [entry EXCEPT
             !.compound_id = dict_get(self.compound_id_to_mesh, chemical_name(entry)),
             !.substance_id = dict_get(self.substance_id_to_mesh, chemical_name(entry))]

\* A faulty CompoundIdEnricher.enrich: maybe_chemical is not asked.
CompoundIdEnricher_enrich_unchecked(self, entry) ==
    IF ~isinstance_MaybeChemical(entry) THEN entry
    ELSE LET compound_id == dict_get(self.compound_id_to_mesh, chemical_name(entry))
             substance_id == dict_get(self.substance_id_to_mesh, chemical_name(entry))
             with_compound == IF compound_id # None
                              THEN set_compound_id(entry, Get(compound_id))
                              ELSE entry
         IN  IF substance_id # None
             THEN set_substance_id(with_compound, Get(substance_id))
             ELSE with_compound

\* CompoundIdEnricher.enrich: the entry after the call.
CompoundIdEnricher_enrich(self, entry) ==
    IF ~isinstance_MaybeChemical(entry) THEN entry
    ELSE IF ~maybe_chemical(entry) THEN entry
    ELSE LET compound_id == dict_get(self.compound_id_to_mesh, chemical_name(entry))
             substance_id == dict_get(self.substance_id_to_mesh, chemical_name(entry))
             with_compound == IF compound_id # None
                              THEN set_compound_id(entry, Get(compound_id))
                              ELSE entry
         IN  IF substance_id # None
             THEN set_substance_id(with_compound, Get(substance_id))
             ELSE with_compound

\* A faulty SMILESEnricher.enrich: without a compound id, the entry gets the
\* SMILES of some compound of the table.
SMILESEnricher_enrich_any(self, entry) ==
    IF ~isinstance_MaybeChemical(entry) THEN entry
    ELSE IF entry.compound_id = None
    THEN (IF DOMAIN self.compound_id_to_smiles = {} THEN entry
          ELSE set_smiles(entry,
                   self.compound_id_to_smiles[
                       CHOOSE k \in DOMAIN self.compound_id_to_smiles : TRUE]))
    ELSE LET smiles == dict_get(self.compound_id_to_smiles, Get(entry.compound_id))
         IN  IF smiles # None THEN set_smiles(entry, Get(smiles)) ELSE entry

\* SMILESEnricher.enrich
SMILESEnricher_enrich(self, entry) ==
    IF ~isinstance_MaybeChemical(entry) THEN entry
    ELSE IF entry.compound_id = None THEN entry
    ELSE LET smiles == dict_get(self.compound_id_to_smiles, Get(entry.compound_id))
         IN  IF smiles # None THEN set_smiles(entry, Get(smiles)) ELSE entry

\* A faulty InChIKeyEnricher.enrich: the InChI is set without its key.
InChIKeyEnricher_enrich_inchi_only(self, entry) ==
    IF ~isinstance_MaybeChemical(entry) THEN entry
    ELSE IF entry.compound_id = None THEN entry
    ELSE LET pair == dict_get(self.compound_id_to_inchi, Get(entry.compound_id))
         IN  IF pair # None
             THEN [entry EXCEPT !.inchi = Some(Get(pair)[1])]
             ELSE entry

\* InChIKeyEnricher.enrich
InChIKeyEnricher_enrich(self, entry) ==
    IF ~isinstance_MaybeChemical(entry) THEN entry
    ELSE IF entry.compound_id = None THEN entry
    ELSE LET pair == dict_get(self.compound_id_to_inchi, Get(entry.compound_id))
         IN  IF pair # None
             THEN set_inchi_and_inchikey(entry, Get(pair)[1], Get(pair)[2])
             ELSE entry

\* enricher.enrich(entry=entry), by the class of the enricher.
enrich(enricher, entry) ==
    IF enricher.class = "CompoundIdEnricher" THEN CompoundIdEnricher_enrich(enricher, entry)
    ELSE IF enricher.class = "SMILESEnricher" THEN SMILESEnricher_enrich(enricher, entry)
    ELSE InChIKeyEnricher_enrich(enricher, entry)

----------------------------------------------------------------------------
(* Dataset.build: the pure parts.                                          *)

\* Faulty rows of one chemical: a row for every identifier of the list.
edges_to_all(chemical, identifiers, descriptors_unique_ids) ==
    [i \in 1..Len(identifiers) |-> [chemical |-> chemical, descriptor |-> identifiers[i]]]

\* Faulty rows of one chemical: one row for an identifier that occurs more
\* than once in the list.
RECURSIVE edges_to_once(_, _, _)
edges_to_once(chemical, identifiers, descriptors_unique_ids) ==
    IF identifiers = <<>> THEN <<>>
    ELSE IF /\ Head(identifiers) \in descriptors_unique_ids
            /\ Head(identifiers) \notin Elements(Tail(identifiers))
    THEN <<[chemical |-> chemical, descriptor |-> Head(identifiers)]>>
             \o edges_to_once(chemical, Tail(identifiers), descriptors_unique_ids)
    ELSE edges_to_once(chemical, Tail(identifiers), descriptors_unique_ids)

\* dataset.py 177-181 and 183-187: the rows of one chemical for a list of
\* identifiers, those of the descriptors of the build only.
RECURSIVE edges_to(_, _, _)
edges_to(chemical, identifiers, descriptors_unique_ids) ==
    IF identifiers = <<>> THEN <<>>
    ELSE IF Head(identifiers) \in descriptors_unique_ids
    THEN <<[chemical |-> chemical, descriptor |-> Head(identifiers)]>>
             \o edges_to(chemical, Tail(identifiers), descriptors_unique_ids)
    ELSE edges_to(chemical, Tail(identifiers), descriptors_unique_ids)

\* dataset.py 170-187: the loop over the chemicals.
RECURSIVE chemical_edges(_, _)
chemical_edges(list, descriptors_unique_ids) ==
    IF list = <<>> THEN <<>>
    ELSE edges_to(Head(list).unique_identifier, Head(list).descriptors,
                  descriptors_unique_ids)
         \o edges_to(Head(list).unique_identifier, Head(list).pharmacological_actions,
                     descriptors_unique_ids)
         \o chemical_edges(Tail(list), descriptors_unique_ids)

\* A faulty assignment: the key is stored in the place of the value.
setitem_key(dict, key, value) ==
    [k \in DOMAIN dict \cup {key} |-> IF k = key THEN key ELSE dict[k]]

\* A faulty assignment: the value of a key that is in the dict is kept.
setitem_keeps(dict, key, value) ==
    [k \in DOMAIN dict \cup {key} |-> IF k \in DOMAIN dict THEN dict[k] ELSE value]

\* dict[key] = value
setitem(dict, key, value) ==
    [k \in DOMAIN dict \cup {key} |-> IF k = key THEN value ELSE dict[k]]

\* dataset.py 207-208: the inner loop for one descriptor.
RECURSIVE lookup_paths(_, _, _)
lookup_paths(dict, tree_numbers, unique_identifier) ==
    IF tree_numbers = <<>> THEN dict
    ELSE lookup_paths(setitem(dict, join(Dot, Head(tree_numbers)), unique_identifier),
                      Tail(tree_numbers), unique_identifier)

\* dataset.py 199-208
RECURSIVE lookup_of(_, _)
lookup_of(dict, list) ==
    IF list = <<>> THEN dict
    ELSE lookup_of(lookup_paths(dict, Head(list).mesh_dag_numbers,
                                Head(list).unique_identifier),
                   Tail(list))

\* A faulty line 231: no parent is taken as already met.
never_parent(destination, parents) == FALSE

\* dataset.py 231: the parent was already met for this descriptor.
already_parent(destination, parents) == destination \in parents

\* A faulty assertion of lines 236-238: it always holds.
never_cycle(destination, unique_identifier) == TRUE

\* dataset.py 236-238: the assertion holds.
not_cycle(destination, unique_identifier) == destination # unique_identifier

\* A faulty inner loop: a path whose parent path is not in the lookup is
\* skipped.
RECURSIVE parent_edges_skips(_, _, _, _, _)
parent_edges_skips(unique_identifier, tree_numbers, lookup, parents, rows) ==
    IF tree_numbers = <<>> THEN [exc |-> "", val |-> rows]
    ELSE LET tree_number == Head(tree_numbers)
             key == join(Dot, SubSeq(tree_number, 1, Len(tree_number) - 1))
         IN  IF Len(tree_number) = 1 \/ key \notin DOMAIN lookup
                \/ already_parent(lookup[key], parents)
             THEN parent_edges_skips(unique_identifier, Tail(tree_numbers), lookup,
                                     parents, rows)
             ELSE IF ~not_cycle(lookup[key], unique_identifier)
             THEN [exc |-> "AssertionError", val |-> rows]
             ELSE parent_edges_skips(unique_identifier, Tail(tree_numbers), lookup,
                                     parents \cup {lookup[key]},
                                     Append(rows, [child |-> unique_identifier,
                                                   parent |-> lookup[key]]))

\* dataset.py 221-240: the inner loop for one descriptor, from the paths
\* still to visit, the parents seen and the rows appended so far.  val is
\* the rows appended, also when an assertion fails.
RECURSIVE parent_edges(_, _, _, _, _)
parent_edges(unique_identifier, tree_numbers, lookup, parents, rows) ==
    IF tree_numbers = <<>> THEN [exc |-> "", val |-> rows]
    ELSE LET tree_number == Head(tree_numbers)
             key == join(Dot, SubSeq(tree_number, 1, Len(tree_number) - 1))
         IN  IF Len(tree_number) = 1
             THEN parent_edges(unique_identifier, Tail(tree_numbers), lookup,
                               parents, rows)
             ELSE IF key \notin DOMAIN lookup
             THEN [exc |-> "AssertionError", val |-> rows]
             ELSE IF already_parent(lookup[key], parents)
             THEN parent_edges(unique_identifier, Tail(tree_numbers), lookup,
                               parents, rows)
             ELSE IF ~not_cycle(lookup[key], unique_identifier)
             THEN [exc |-> "AssertionError", val |-> rows]
             ELSE parent_edges(unique_identifier, Tail(tree_numbers), lookup,
                               parents \cup {lookup[key]},
                               Append(rows, [child |-> unique_identifier,
                                             parent |-> lookup[key]]))

----------------------------------------------------------------------------
(* The input files.                                                        *)

Line(s) == s \o <<NL>>
KV(key, value) == key \o Separator \o value

GrammarLines == {
    Line(NEWRECORD),
    <<" ">> \o Line(NEWRECORD),
    <<NL>>,
    Line(KV(RECTYPE, <<"D">>)),
    Line(KV(RECTYPE, <<"X">>)),
    Line(KV(UI, <<"D", "1">>)),
    Line(KV(UI, <<"C", "1">>)),
    Line(KV(UI, <<"D">>)),
    Line(KV(UI, <<"D", "x">>)),
    Line(KV(UI, <<"D", SuperscriptTwo>>)),
    Line(KV(MH, <<"a">>)),
    Line(MH \o <<" ", "=">>),
    Line(KV(MH, KV(<<"a">>, <<"b">>)))
}

GrammarFiles == UNION {[1..n -> GrammarLines] : n \in 0..MaxLines}

\* Files in which a record has a second RECTYPE line or a second UI line,
\* and one whose RECTYPE line comes after another field.
RepeatedFiles == {
    <<Line(NEWRECORD), Line(KV(RECTYPE, <<"D">>)), Line(KV(RECTYPE, <<"C">>))>>,
    <<Line(NEWRECORD), Line(KV(RECTYPE, <<"D">>)), Line(KV(UI, <<"D", "1">>)),
      Line(KV(RECTYPE, <<"C">>))>>,
    <<Line(NEWRECORD), Line(KV(RECTYPE, <<"D">>)), Line(KV(UI, <<"D", "1">>)),
      Line(KV(UI, <<"D", "2">>))>>,
    <<Line(NEWRECORD), Line(KV(MH, <<"a">>)), Line(KV(RECTYPE, <<"Q">>)),
      Line(KV(UI, <<"Q", "1">>))>>
}

\* Descriptor files: the k-th record is
\*   *NEWRECORD / RECTYPE = D / UI = D00000k / [MH = Water] / MN = ... lines.
Water == <<"W", "a", "t", "e", "r">>
D02 == <<"D", "0", "2">>
D03 == <<"D", "0", "3">>
A01 == <<"A", "0", "1">>
D02_012 == D02 \o Dot \o <<"0", "1", "2">>
D02_500 == D02 \o Dot \o <<"5", "0", "0">>
D03_012 == D03 \o Dot \o <<"0", "1", "2">>
D02_012_500 == D02_012 \o Dot \o <<"5", "0", "0">>

TreeNumberLists == {
    <<>>,
    <<A01>>,
    <<D02>>,
    <<D03>>,
    <<D02_012>>,
    <<D02_012_500>>,
    <<D02, D03_012>>,
    <<D03, D02_012>>,
    <<D02, D02_012>>,
    <<D02_012, D02_500>>,
    <<A01, D02_012>>
}

Blocks ==
    {[mh |-> Some(Water), mn |-> l] : l \in TreeNumberLists}
        \cup {[mh |-> None, mn |-> l] : l \in {<<>>, <<D02_012_500>>}}

UniqueIdentifier(k) ==
    <<"D", "0", "0", "0", "0", "0">>
        \o <<(<<"1", "2", "3", "4", "5", "6", "7", "8", "9">>)[k]>>

BlockLines(k, b) ==
    <<Line(NEWRECORD), Line(KV(RECTYPE, <<"D">>)), Line(KV(UI, UniqueIdentifier(k)))>>
        \o (IF b.mh = None THEN <<>> ELSE <<Line(KV(MH, Get(b.mh)))>>)
        \o [i \in 1..Len(b.mn) |-> Line(KV(MN, b.mn[i]))]

RECURSIVE FileOf(_, _)
FileOf(blocks, k) ==
    IF k > Len(blocks) THEN <<>>
    ELSE BlockLines(k, blocks[k]) \o FileOf(blocks, k + 1)

DescriptorFiles ==
    {FileOf(bs, 1) : bs \in UNION {[1..n -> Blocks] : n \in 0..MaxRecords}}

\* The settings of a build: the allowed root letters and subtree codes.
Settings == {
    [allowed_root_letters |-> << <<"D">> >>, allowed_mesh_dag_numbers |-> <<D02>>],
    [allowed_root_letters |-> << <<"D">> >>, allowed_mesh_dag_numbers |-> <<D02, D03>>]
}
NoSettings == [allowed_root_letters |-> <<>>, allowed_mesh_dag_numbers |-> <<>>]

\* Chemical files: the k-th record is
\*   *NEWRECORD / RECTYPE = C / UI = C00000k / [NM = name] / HM = ... / PA = ...
\* and one kind of record has the type D and the identifier D00000k.
Salt == <<"S", "a", "l", "t">>
D07 == <<"D", "0", "7">>
Identifier(letter, k) ==
    <<letter, "0", "0", "0", "0", "0">>
        \o <<(<<"1", "2", "3", "4", "5", "6", "7", "8", "9">>)[k]>>
Qualified(heading) == heading \o Slash \o Identifier("Q", 5) \o <<"-", "A", "B">>

HMValues == [
    example |-> Qualified(Identifier("D", 1)),
    starred |-> <<"*">> \o Identifier("D", 2) \o <<"-", "x">>,
    empty_piece |-> Identifier("D", 1) \o Slash,
    other_letter |-> Identifier("X", 1),
    two |-> Identifier("D", 2) \o Slash \o <<" ", "*">> \o Identifier("D", 1),
    absent |-> Identifier("D", 9),
    qualifier |-> Identifier("Q", 5)
]
PAValues == [
    first |-> Identifier("D", 1) \o <<"-", "y">>,
    second |-> Identifier("D", 2),
    absent |-> Identifier("D", 9)
]

ChemicalBlock(letter, nm, hm, pa) == [rt |-> letter, nm |-> nm, hm |-> hm, pa |-> pa]

ChemicalBlocks == {
    ChemicalBlock("C", Some(Water), <<>>, <<>>),
    ChemicalBlock("C", Some(Salt), <<>>, <<PAValues.second>>),
    ChemicalBlock("C", Some(Water), <<HMValues.example>>, <<>>),
    ChemicalBlock("C", Some(Water), <<HMValues.starred>>, <<PAValues.first>>),
    ChemicalBlock("C", Some(Water), <<HMValues.empty_piece>>, <<>>),
    ChemicalBlock("C", Some(Water), <<HMValues.other_letter>>, <<>>),
    ChemicalBlock("C", Some(Water), <<HMValues.two, HMValues.absent>>, <<>>),
    ChemicalBlock("C", Some(Water), <<HMValues.example>>, <<PAValues.first, PAValues.absent>>),
    ChemicalBlock("C", Some(Water), <<HMValues.qualifier>>, <<>>),
    ChemicalBlock("C", Some(Water), <<HMValues.two, HMValues.example>>, <<PAValues.second>>),
    ChemicalBlock("C", None, <<>>, <<>>),
    ChemicalBlock("D", Some(Water), <<>>, <<>>)
}

ChemicalBlockLines(k, b) ==
    <<Line(NEWRECORD), Line(KV(RECTYPE, <<b.rt>>)), Line(KV(UI, Identifier(b.rt, k)))>>
        \o (IF b.nm = None THEN <<>> ELSE <<Line(KV(NM, Get(b.nm)))>>)
        \o [i \in 1..Len(b.hm) |-> Line(KV(HM, b.hm[i]))]
        \o [i \in 1..Len(b.pa) |-> Line(KV(PA, b.pa[i]))]

RECURSIVE ChemicalFileOf(_, _)
ChemicalFileOf(blocks, k) ==
    IF k > Len(blocks) THEN <<>>
    ELSE ChemicalBlockLines(k, blocks[k]) \o ChemicalFileOf(blocks, k + 1)

ChemicalFiles ==
    {ChemicalFileOf(bs, 1) : bs \in UNION {[1..n -> ChemicalBlocks] : n \in 0..MaxRecords}}

\* A chemicals file of one record without headings, and one of two records.
OneChemical == ChemicalFileOf(<<ChemicalBlock("C", Some(Water), <<>>, <<>>)>>, 1)
TwoChemicals ==
    ChemicalFileOf(<<ChemicalBlock("C", Some(Water), <<HMValues.example>>, <<>>),
                     ChemicalBlock("C", Some(Salt), <<>>, <<PAValues.second>>)>>, 1)

\* Two descriptor files for the chemicals: in the first both descriptors
\* are kept, the first is not a chemical and is the parent of the second;
\* in the second file the second descriptor is not kept.
D07_012 == D07 \o Dot \o <<"0", "1", "2">>
TwoKept == FileOf(<<[mh |-> Some(Water), mn |-> <<D07>>],
                    [mh |-> Some(Water), mn |-> <<D02, D07_012>>]>>, 1)
OneKept == FileOf(<<[mh |-> Some(Water), mn |-> <<D02>>],
                    [mh |-> Some(Water), mn |-> <<A01>>]>>, 1)
TwoKeptSettings ==
    [allowed_root_letters |-> << <<"D">> >>, allowed_mesh_dag_numbers |-> <<D02, D07>>]
OneKeptSettings ==
    [allowed_root_letters |-> << <<"D">> >>, allowed_mesh_dag_numbers |-> <<D02>>]

\* The tables of the enrichers: a table is empty or has the one entry.
CompoundTables == {<<>>, [name \in {Water} |-> 962]}
SubstanceTables == {<<>>, [name \in {Water} |-> 24901]}
SMILESTables == {<<>>, [compound_id \in {962} |-> "O"]}
InChITables ==
    {<<>>, [compound_id \in {962} |->
               <<"InChI=1S/H2O/h1H2", "XLYOFNOQVPJJNP-UHFFFAOYSA-N">>]}

CompoundIdEnrichers ==
    {CompoundIdEnricher(c, t) : c \in CompoundTables, t \in SubstanceTables}
SMILESEnrichers == {SMILESEnricher(t) : t \in SMILESTables}
InChIKeyEnrichers == {InChIKeyEnricher(t) : t \in InChITables}

\* The lists of enrichers of a build: every list of one enricher or of two
\* of different classes, and the three enrichers whose tables have the entry
\* in every order.
EnricherLists ==
    LET all == CompoundIdEnrichers \cup SMILESEnrichers \cup InChIKeyEnrichers
        full == {e \in all : \A field \in DOMAIN e \ {"class"} : e[field] # <<>>}
    IN  {<<>>}
          \cup {<<a>> : a \in all}
          \cup {l \in [1..2 -> all] : l[1].class # l[2].class}
          \cup {l \in [1..3 -> full] :
                   \A i, j \in 1..3 : i # j => l[i].class # l[j].class}

NoDownloads == [descriptors |-> <<>>, chemicals |-> <<>>]

\* What a build is given: the settings and the two files.
BuildInputs ==
    {[settings |-> st, descriptors |-> d, chemicals |-> OneChemical, enrichers |-> <<>>] :
        st \in Settings, d \in DescriptorFiles}
      \cup {[settings |-> TwoKeptSettings, descriptors |-> TwoKept,
              chemicals |-> c, enrichers |-> <<>>] : c \in ChemicalFiles}
      \cup {[settings |-> OneKeptSettings, descriptors |-> OneKept,
              chemicals |-> c, enrichers |-> <<>>] : c \in ChemicalFiles}
      \cup {[settings |-> TwoKeptSettings, descriptors |-> TwoKept,
              chemicals |-> TwoChemicals, enrichers |-> l] : l \in EnricherLists}

----------------------------------------------------------------------------
(* The program.                                                            *)

Init ==
    /\ \/ /\ reader = "MESHReader"
          /\ allowed = NoSettings
          /\ downloads = NoDownloads
          /\ enrichment_procedures = <<>>
          /\ file \in GrammarFiles \cup RepeatedFiles
       \/ \E input \in BuildInputs :
             /\ reader = "MESHDescriptorsReader"
             /\ allowed = input.settings
             /\ downloads = [descriptors |-> input.descriptors,
                             chemicals |-> input.chemicals]
             /\ enrichment_procedures = input.enrichers
             /\ file = input.descriptors
    /\ pos = 1
    /\ record = None
    /\ yielded = <<>>
    /\ descriptors = <<>>
    /\ mesh_dag_numbers = <<>>
    /\ di = 1
    /\ mesh_dag = <<>>
    /\ chemicals = <<>>
    /\ ei = 1
    /\ ej = 1
    /\ chemicals_to_descriptors = <<>>
    /\ entity = None
    /\ calls = <<>>
    /\ pc = "read"
    /\ error = NoError

chemical_vars == <<chemicals, ei, ej, chemicals_to_descriptors>>
build_vars == <<descriptors, mesh_dag_numbers, di, mesh_dag, chemical_vars>>
input_vars == <<reader, allowed, downloads, enrichment_procedures, file, entity, calls>>

HasLine == pc = "read" /\ pos <= Len(file)
CurrentLine == strip(file[pos])

\* reader.py 104-105
BlankLine ==
    /\ HasLine
    /\ Len(CurrentLine) = 0
    /\ pos' = pos + 1
    /\ UNCHANGED <<input_vars, record, yielded, build_vars, pc, error>>

\* reader.py 107-111, up to the yield: the generator is suspended with the
\* old record still bound to `record`.
NewRecordLine ==
    /\ HasLine
    /\ CurrentLine = NEWRECORD
    /\ IF record = None
       THEN /\ record' = Some(MESHRecord)
            /\ pos' = pos + 1
            /\ UNCHANGED <<yielded, pc, error>>
       ELSE IF is_complete(Get(record))
       THEN /\ yielded' = Append(yielded, Get(record))
            /\ pc' = "yield"
            /\ UNCHANGED <<record, pos, error>>
       ELSE /\ pc' = "error"
            /\ error' = Raised("AssertionError", "MESHReader")
            /\ UNCHANGED <<record, pos, yielded>>
    /\ UNCHANGED <<input_vars, build_vars>>

\* reader.py 112-113: the consumer asks for the next record.
ResumeAfterYield ==
    /\ pc = "resume"
    /\ pos <= Len(file)
    /\ record' = Some(MESHRecord)
    /\ pos' = pos + 1
    /\ pc' = "read"
    /\ UNCHANGED <<input_vars, yielded, build_vars, error>>

\* reader.py 115-130
KeyValueLine ==
    /\ HasLine
    /\ Len(CurrentLine) # 0
    /\ CurrentLine # NEWRECORD
    /\ LET res == key_value_line(record, CurrentLine)
       IN  IF res.exc = ""
           THEN /\ record' = Some(res.val)
                /\ pos' = pos + 1
                /\ UNCHANGED <<pc, error>>
           ELSE /\ pc' = "error"
                /\ error' = Raised(res.exc, "MESHReader")
                /\ UNCHANGED <<record, pos>>
    /\ UNCHANGED <<input_vars, yielded, build_vars>>

\* A faulty end of file: the generator returns without the last record.
EndOfFile_forgets ==
    /\ pc = "read"
    /\ pos > Len(file)
    /\ pc' = "resume"
    /\ UNCHANGED <<input_vars, pos, record, yielded, build_vars, error>>

\* reader.py 132-133, up to the yield.
EndOfFile ==
    /\ pc = "read"
    /\ pos > Len(file)
    /\ IF record = None
       THEN /\ pc' = "error"
            /\ error' = Raised("AttributeError", "MESHReader")
            /\ UNCHANGED yielded
       ELSE IF record_type(Get(record)).exc # ""
       THEN /\ pc' = "error"
            /\ error' = Raised(record_type(Get(record)).exc, "MESHReader")
            /\ UNCHANGED yielded
       ELSE /\ yielded' = Append(yielded, Get(record))
            /\ pc' = "yield"
            /\ UNCHANGED error
    /\ UNCHANGED <<input_vars, pos, record, build_vars>>

\* list(MESHReader(path)): the consumer keeps the record it was handed.
CollectRecord ==
    /\ pc = "yield"
    /\ reader = "MESHReader"
    /\ pc' = "resume"
    /\ UNCHANGED <<input_vars, pos, record, yielded, build_vars, error>>

\* The generator returns after the yield of line 133.
FinishIteration ==
    /\ pc = "resume"
    /\ pos > Len(file)
    /\ reader = "MESHReader"
    /\ pc' = "done"
    /\ UNCHANGED <<input_vars, pos, record, yielded, build_vars, error>>

\* descriptors_reader.py 139-157: the extractor takes the record the parser
\* yielded and keeps the descriptor it makes of it, if any.
ExtractDescriptor ==
    /\ pc = "yield"
    /\ reader = "MESHDescriptorsReader"
    /\ LET res == descriptor_of(yielded[Len(yielded)], allowed)
       IN  IF res.exc = ""
           THEN /\ descriptors' = descriptors \o res.val
                /\ pc' = "resume"
                /\ UNCHANGED error
           ELSE /\ pc' = "error"
                /\ error' = Raised(res.exc, "MESHDescriptorsReader")
                /\ UNCHANGED descriptors
    /\ UNCHANGED <<input_vars, pos, record, yielded, mesh_dag_numbers, di, mesh_dag,
                   chemical_vars>>

\* dataset.py 144-146: list(MESHDescriptorsReader(...)) is complete.
DescriptorsRead ==
    /\ pc = "resume"
    /\ pos > Len(file)
    /\ reader = "MESHDescriptorsReader"
    /\ pc' = "chemicals"
    /\ UNCHANGED <<input_vars, pos, record, yielded, build_vars, error>>

\* dataset.py 148, reader.py 99-100: the iteration over the chemicals file
\* starts, with no record open.
OpenChemicals ==
    /\ pc = "chemicals"
    /\ reader' = "MESHChemicalsReader"
    /\ file' = downloads.chemicals
    /\ pos' = 1
    /\ record' = None
    /\ yielded' = <<>>
    /\ pc' = "read"
    /\ UNCHANGED <<allowed, downloads, enrichment_procedures, entity, calls,
                   build_vars, error>>

\* A faulty extractor: a record it cannot make a chemical of is skipped.
ExtractChemical_skips ==
    /\ pc = "yield"
    /\ reader = "MESHChemicalsReader"
    /\ LET res == chemical_of(yielded[Len(yielded)])
       IN  chemicals' = IF res.exc = "" THEN chemicals \o res.val ELSE chemicals
    /\ pc' = "resume"
    /\ UNCHANGED <<input_vars, pos, record, yielded, descriptors, mesh_dag_numbers,
                   di, mesh_dag, ei, ej, chemicals_to_descriptors, error>>

\* chemicals_reader.py 129-156: the extractor takes the record the parser
\* yielded and keeps the chemical it makes of it.
ExtractChemical ==
    /\ pc = "yield"
    /\ reader = "MESHChemicalsReader"
    /\ LET res == chemical_of(yielded[Len(yielded)])
       IN  IF res.exc = ""
           THEN /\ chemicals' = chemicals \o res.val
                /\ pc' = "resume"
                /\ UNCHANGED error
           ELSE /\ pc' = "error"
                /\ error' = Raised(res.exc, "MESHChemicalsReader")
                /\ UNCHANGED chemicals
    /\ UNCHANGED <<input_vars, pos, record, yielded, descriptors, mesh_dag_numbers,
                   di, mesh_dag, ei, ej, chemicals_to_descriptors>>

\* dataset.py 148-150: list(MESHChemicalsReader(...)) is complete.
ChemicalsRead ==
    /\ pc = "resume"
    /\ pos > Len(file)
    /\ reader = "MESHChemicalsReader"
    /\ ei' = 1
    /\ ej' = 1
    /\ pc' = "enrich"
    /\ UNCHANGED <<input_vars, pos, record, yielded, descriptors, mesh_dag_numbers,
                   di, mesh_dag, chemicals, chemicals_to_descriptors, error>>

\* A faulty loop: the entry is enriched by every enricher of the list at
\* once, the enrichers being the inner loop.
RECURSIVE enrich_with_first(_, _)
enrich_with_first(entry, k) ==
    IF k = 0 THEN entry
    ELSE enrich(enrichment_procedures[k], enrich_with_first(entry, k - 1))

EnrichEntry_every_enricher ==
    /\ pc = "enrich"
    /\ ei <= Len(enrichment_procedures)
    /\ ej <= Len(descriptors) + Len(chemicals)
    /\ IF ej <= Len(descriptors)
       THEN /\ descriptors' =
                  [descriptors EXCEPT
                      ![ej] = enrich_with_first(@, Len(enrichment_procedures))]
            /\ UNCHANGED chemicals
       ELSE /\ chemicals' =
                  [chemicals EXCEPT
                      ![ej - Len(descriptors)] =
                          enrich_with_first(@, Len(enrichment_procedures))]
            /\ UNCHANGED descriptors
    /\ ej' = ej + 1
    /\ UNCHANGED <<input_vars, pos, record, yielded, mesh_dag_numbers, di, mesh_dag,
                   ei, chemicals_to_descriptors, pc, error>>

\* dataset.py 159-162: the enricher of the outer loop enriches one entry,
\* the descriptors first and then the chemicals.
EnrichEntry ==
    /\ pc = "enrich"
    /\ ei <= Len(enrichment_procedures)
    /\ ej <= Len(descriptors) + Len(chemicals)
    /\ IF ej <= Len(descriptors)
       THEN /\ descriptors' =
                  [descriptors EXCEPT ![ej] = enrich(enrichment_procedures[ei], @)]
            /\ UNCHANGED chemicals
       ELSE /\ chemicals' =
                  [chemicals EXCEPT ![ej - Len(descriptors)] =
                                        enrich(enrichment_procedures[ei], @)]
            /\ UNCHANGED descriptors
    /\ ej' = ej + 1
    /\ UNCHANGED <<input_vars, pos, record, yielded, mesh_dag_numbers, di, mesh_dag,
                   ei, chemicals_to_descriptors, pc, error>>

\* dataset.py 152: the outer loop takes the next enricher.
NextEnricher ==
    /\ pc = "enrich"
    /\ ei <= Len(enrichment_procedures)
    /\ ej > Len(descriptors) + Len(chemicals)
    /\ ei' = ei + 1
    /\ ej' = 1
    /\ UNCHANGED <<input_vars, pos, record, yielded, descriptors, mesh_dag_numbers,
                   di, mesh_dag, chemicals, chemicals_to_descriptors, pc, error>>

\* dataset.py 164-194: the rows from the chemicals to the descriptors.
BuildMembership ==
    /\ pc = "enrich"
    /\ ei > Len(enrichment_procedures)
    /\ chemicals_to_descriptors' =
           chemical_edges(chemicals,
                          {descriptors[i].unique_identifier : i \in 1..Len(descriptors)})
    /\ pc' = "lookup"
    /\ UNCHANGED <<input_vars, pos, record, yielded, descriptors, mesh_dag_numbers,
                   di, mesh_dag, chemicals, ei, ej, error>>

\* dataset.py 199-208
BuildLookup ==
    /\ pc = "lookup"
    /\ mesh_dag_numbers' = lookup_of(<<>>, descriptors)
    /\ di' = 1
    /\ pc' = "edges"
    /\ UNCHANGED <<input_vars, pos, record, yielded, descriptors, mesh_dag,
                   chemical_vars, error>>

\* dataset.py 210-240: one iteration of the loop over the descriptors.
BuildEdges ==
    /\ pc = "edges"
    /\ di <= Len(descriptors)
    /\ LET res == parent_edges(descriptors[di].unique_identifier,
                               descriptors[di].mesh_dag_numbers,
                               mesh_dag_numbers, {}, <<>>)
       IN  /\ mesh_dag' = mesh_dag \o res.val
           /\ IF res.exc = ""
              THEN /\ di' = di + 1
                   /\ UNCHANGED <<pc, error>>
              ELSE /\ pc' = "error"
                   /\ error' = Raised(res.exc, "Dataset.build")
                   /\ UNCHANGED di
    /\ UNCHANGED <<input_vars, pos, record, yielded, descriptors, mesh_dag_numbers,
                   chemical_vars>>

\* dataset.py 242-263: the tables are made and the dataset is returned.
ReturnDataset ==
    /\ pc = "edges"
    /\ di > Len(descriptors)
    /\ pc' = "done"
    /\ UNCHANGED <<input_vars, pos, record, yielded, build_vars, error>>

Next ==
    \/ BlankLine
    \/ NewRecordLine
    \/ ResumeAfterYield
    \/ KeyValueLine
    \/ EndOfFile
    \/ CollectRecord
    \/ FinishIteration
    \/ ExtractDescriptor
    \/ DescriptorsRead
    \/ OpenChemicals
    \/ ExtractChemical
    \/ ChemicalsRead
    \/ EnrichEntry
    \/ NextEnricher
    \/ BuildMembership
    \/ BuildLookup
    \/ BuildEdges
    \/ ReturnDataset

Spec == Init /\ [][Next]_vars

----------------------------------------------------------------------------
(* A client of the enrichers: it has one entity and the three enrichers,   *)
(* and calls enrich, or the setter of the compound id, in any order.       *)

Entities == {
    MESHChemical(Water, Identifier("C", 1), <<>>, <<>>),
    MESHChemical(Salt, Identifier("C", 2), <<>>, <<>>),
    MESHDescriptor(Water, Identifier("D", 1), << <<D02>> >>),
    MESHDescriptor(Water, Identifier("D", 2), << <<D07>> >>),
    MESHQualifier(Water, Identifier("Q", 5))
}

\* The compound ids the client sets: one that is in the tables, one that is not.
CompoundIds == {962, 280}

InitEnrichers ==
    /\ reader = ""
    /\ allowed = NoSettings
    /\ downloads = NoDownloads
    /\ \E c \in CompoundIdEnrichers, t \in SMILESEnrichers, i \in InChIKeyEnrichers :
          enrichment_procedures = <<c, t, i>>
    /\ file = <<>>
    /\ pos = 1
    /\ record = None
    /\ yielded = <<>>
    /\ descriptors = <<>>
    /\ mesh_dag_numbers = <<>>
    /\ di = 1
    /\ mesh_dag = <<>>
    /\ chemicals = <<>>
    /\ ei = 1
    /\ ej = 1
    /\ chemicals_to_descriptors = <<>>
    /\ \E e \in Entities : entity = Some(e)
    /\ calls = <<>>
    /\ pc = "client"
    /\ error = NoError

client_vars == <<reader, allowed, downloads, enrichment_procedures, file, pos, record,
                 yielded, build_vars, pc, error>>

\* enricher.enrich(entry=entity)
CallEnrich ==
    /\ pc = "client"
    /\ Len(calls) < MaxCalls
    /\ \E i \in 1..Len(enrichment_procedures) :
          /\ entity' = Some(enrich(enrichment_procedures[i], Get(entity)))
          /\ calls' = Append(calls, enrichment_procedures[i].class)
    /\ UNCHANGED client_vars

\* entity.set_compound_id(compound_id)
CallSetCompoundId ==
    /\ pc = "client"
    /\ Len(calls) < MaxCalls
    /\ isinstance_MaybeChemical(Get(entity))
    /\ \E compound_id \in CompoundIds :
          entity' = Some(set_compound_id(Get(entity), compound_id))
    /\ calls' = Append(calls, "set_compound_id")
    /\ UNCHANGED client_vars

NextEnrichers ==
    \/ CallEnrich
    \/ CallSetCompoundId

SpecEnrichers == InitEnrichers /\ [][NextEnrichers]_vars

----------------------------------------------------------------------------
(* Properties of the record parser.                                        *)

\* The texts of a sentinel line and the indexes of the sentinel lines.
SentinelTexts == {Line(NEWRECORD), <<" ">> \o Line(NEWRECORD)}
SentinelLines == {i \in 1..Len(file) : file[i] \in SentinelTexts}

\* The iteration over the file came to its end without an exception of the
\* parser or of the extractor that consumes it.
ParserAccepted ==
    \/ pc \in {"done", "chemicals", "enrich", "lookup", "edges"}
    \/ pc = "error" /\ error.at = "Dataset.build"

\* A record is complete: type set, identifier set, at least one other field.
Complete(r) ==
    /\ r.record_type # None
    /\ r.unique_identifier # None
    /\ DOMAIN r.record # {}

\* C1: when the parser accepts the file, it has yielded as many records as
\* the file has *NEWRECORD lines, and in file order: in a descriptor file,
\* whose k-th record has the k-th identifier, the k-th record yielded is that
\* record.
C1_OneRecordPerSentinel ==
    ParserAccepted =>
        /\ Len(yielded) = Cardinality(SentinelLines)
        /\ reader = "MESHDescriptorsReader" =>
               \A k \in 1..Len(yielded) :
                   yielded[k].unique_identifier = Some(UniqueIdentifier(k))

C1_Witness ==
    /\ ParserAccepted
    /\ Len(yielded) = 2
    /\ Cardinality(SentinelLines) = 2

\* C2: the records yielded are complete, the one yielded at the end of the
\* file included: an open record with RECTYPE set and the UI or every other
\* field missing is not emitted there.
C2_LastRecordComplete ==
    \A k \in 1..Len(yielded) : Complete(yielded[k])

\* C3: on a sentinel line with a record open, the record is yielded exactly
\* when it is complete, and it still is the open record then; an incomplete
\* one ends the parse with nothing yielded.  A new record is started only
\* after the open one was yielded, and nothing is yielded after an error.
SentinelWithOpenRecord ==
    /\ pc = "read"
    /\ pos <= Len(file)
    /\ file[pos] \in SentinelTexts
    /\ record # None

C3_SentinelEmitsComplete ==
    [][/\ SentinelWithOpenRecord =>
            IF Complete(Get(record))
            THEN /\ yielded' = Append(yielded, Get(record))
                 /\ record' = record
                 /\ pc' = "yield"
            ELSE /\ pc' = "error"
                 /\ yielded' = yielded
       /\ (record # None /\ record' # record /\ record' = Some(MESHRecord)) =>
            /\ yielded # <<>>
            /\ yielded[Len(yielded)] = Get(record)
            /\ yielded' = yielded
       /\ pc = "error" => yielded' = yielded]_vars

C3_Witness ==
    /\ pc = "yield"
    /\ pos <= Len(file)
    /\ file[pos] \in SentinelTexts
    /\ yielded # <<>>
    /\ yielded[Len(yielded)] = Get(record)

\* C4: a UI line, read when the type of the record is set, whose value
\* does not start with the letter of the type or whose characters after
\* the first are not all decimal digits (or are none) ends the parse with
\* an error and leaves the record as it was.
UIValues ==
    {<<"D", "1">>, <<"C", "1">>, <<"D">>, <<"D", "x">>, <<"D", SuperscriptTwo>>}
        \cup {UniqueIdentifier(k) : k \in 1..MaxRecords}

WellFormedIdentifier(value, letter) ==
    /\ Len(value) >= 2
    /\ <<value[1]>> = letter
    /\ \A i \in 2..Len(value) : value[i] \in DecimalDigits

C4_MalformedUIRejected ==
    [][\A value \in UIValues :
          (/\ pc = "read"
           /\ pos <= Len(file)
           /\ file[pos] = Line(KV(UI, value))
           /\ record # None
           /\ Get(record).record_type # None
           /\ ~WellFormedIdentifier(value, Get(Get(record).record_type)))
          => (pc' = "error" /\ record' = record)]_vars

\* C5.  The positions at which the separator occurs in a line, and a value
\* line: a line that is neither blank nor the sentinel.
SeparatorAt(line) ==
    {i \in 1..Len(line) : i + 2 <= Len(line) /\ SubSeq(line, i, i + 2) = Separator}

ValueLineRead ==
    /\ pc = "read"
    /\ pos <= Len(file)
    /\ file[pos] \notin SentinelTexts
    /\ file[pos] # <<NL>>

\* C5 as stated: a value line in which the separator does not occur exactly
\* once is rejected.
C5_SeparatorExactlyOnce ==
    [][(ValueLineRead /\ Cardinality(SeparatorAt(strip(file[pos]))) # 1)
          => pc' = "error"]_vars

\* C5 as amended: a value line without the separator is rejected; one with
\* the separator is cut at its first occurrence into a non-empty key and a
\* non-empty value, which may hold further separators, and when the line is
\* accepted and the key is neither RECTYPE nor UI the value is appended to
\* the values of the key.
C5_SplitAtFirstSeparator ==
    [][ValueLineRead =>
          LET line == strip(file[pos])
              at == SeparatorAt(line)
              first == CHOOSE i \in at : \A j \in at : i <= j
              key == SubSeq(line, 1, first - 1)
              value == SubSeq(line, first + 3, Len(line))
          IN  IF at = {} THEN pc' = "error" /\ record' = record
              ELSE /\ Len(key) > 0
                   /\ Len(value) > 0
                   /\ (pc' = "read" /\ key \notin {RECTYPE, UI}) =>
                         /\ key \in DOMAIN Get(record').record
                         /\ LET values == Get(record').record[key]
                            IN  values[Len(values)] = value]_vars

C5_Witness ==
    /\ record # None
    /\ MH \in DOMAIN Get(record).record
    /\ Get(record).record[MH] = <<KV(<<"a">>, <<"b">>)>>

----------------------------------------------------------------------------
(* Properties of the descriptor extractor and of the hierarchy edges.      *)

\* An MN value qualifies: its first character is an allowed root letter and
\* its text up to the first dot is an allowed subtree code.
Qualifies(value, settings) ==
    /\ \E letter \in Elements(settings.allowed_root_letters) : startswith(value, letter)
    /\ \E code \in Elements(settings.allowed_mesh_dag_numbers) :
           value = code \/ startswith(value, code \o Dot)

\* The records the extractor has dealt with.
Extracted == IF pc = "yield" THEN 1..(Len(yielded) - 1) ELSE 1..Len(yielded)

UniqueIdentifiers == {descriptors[i].unique_identifier : i \in 1..Len(descriptors)}

\* C6: every descriptor kept has at least one path, and each of its paths
\* starts with an allowed root letter and has an allowed subtree code as
\* first segment; a record none of whose MN values qualifies gives no
\* descriptor.
C6_RetainedPathsAllowed ==
    reader = "MESHDescriptorsReader" =>
        /\ \A i \in 1..Len(descriptors) :
              /\ Len(descriptors[i].mesh_dag_numbers) >= 1
              /\ \A j \in 1..Len(descriptors[i].mesh_dag_numbers) :
                    LET path == descriptors[i].mesh_dag_numbers[j]
                    IN  /\ Len(path) >= 1
                        /\ Len(path[1]) >= 1
                        /\ <<path[1][1]>> \in Elements(allowed.allowed_root_letters)
                        /\ path[1] \in Elements(allowed.allowed_mesh_dag_numbers)
        /\ \A k \in Extracted :
              LET values == IF MN \in DOMAIN yielded[k].record
                            THEN yielded[k].record[MN] ELSE <<>>
              IN  (\A v \in Elements(values) : ~Qualifies(v, allowed))
                      => Get(yielded[k].unique_identifier) \notin UniqueIdentifiers

\* A record whose MN values are all filtered out was dropped, another kept,
\* and a kept descriptor lost one of its MN values.
C6_Witness ==
    /\ pc = "chemicals"
    /\ Len(yielded) = 2
    /\ Len(descriptors) = 1
    /\ \E k \in 1..2 :
          /\ Get(yielded[k].unique_identifier) = descriptors[1].unique_identifier
          /\ Len(yielded[k].record[MN]) = 2
          /\ Len(descriptors[1].mesh_dag_numbers) = 1
    /\ \E k \in 1..2 :
          /\ MN \in DOMAIN yielded[k].record
          /\ Get(yielded[k].unique_identifier) \notin UniqueIdentifiers

\* The parents the rows give a descriptor, and what is reached from a set
\* of descriptors in at most n further steps.
ParentsIn(rows, child) ==
    {rows[i].parent : i \in {j \in 1..Len(rows) : rows[j].child = child}}

RECURSIVE Reached(_, _, _)
Reached(rows, from, n) ==
    IF n = 0 THEN from
    ELSE Reached(rows, from \cup UNION {ParentsIn(rows, u) : u \in from}, n - 1)

Acyclic(rows) ==
    \A i \in 1..Len(rows) :
        rows[i].child \notin Reached(rows, {rows[i].parent}, Len(rows))

RECURSIVE Dotted(_)
Dotted(segments) ==
    IF Len(segments) = 1 THEN segments[1]
    ELSE Dotted(SubSeq(segments, 1, Len(segments) - 1))
             \o Dot \o segments[Len(segments)]

ParentPath(path) == Dotted(SubSeq(path, 1, Len(path) - 1))

\* The paths of a descriptor that have a parent path.
LongPaths(descriptor) ==
    {p \in Elements(descriptor.mesh_dag_numbers) : Len(p) >= 2}

ResolvesToItself(descriptor) ==
    \E p \in LongPaths(descriptor) :
        /\ ParentPath(p) \in DOMAIN mesh_dag_numbers
        /\ mesh_dag_numbers[ParentPath(p)] = descriptor.unique_identifier

\* C8: no row has its child as parent, at any time of the build; and a build
\* in which a path of a descriptor resolves to the descriptor itself does
\* not return: it has raised when that descriptor has been dealt with.
C8_NoSelfLoop ==
    /\ \A i \in 1..Len(mesh_dag) : mesh_dag[i].child # mesh_dag[i].parent
    /\ pc \in {"edges", "done"} =>
          \A i \in 1..Len(descriptors) :
              i < di => ~ResolvesToItself(descriptors[i])
    /\ pc = "done" => di = Len(descriptors) + 1

C8_Witness ==
    /\ pc = "error"
    /\ error = Raised("AssertionError", "Dataset.build")
    /\ ResolvesToItself(descriptors[di])
    /\ \A p \in LongPaths(descriptors[di]) : ParentPath(p) \in DOMAIN mesh_dag_numbers

\* C9: in the table of a build that returns, the rows with child D are one
\* row per distinct parent that the paths of D of length 2 or more resolve
\* to, and no other row.
RowsOf(child) == {i \in 1..Len(mesh_dag) : mesh_dag[i].child = child}

ResolvedParents(descriptor) ==
    {mesh_dag_numbers[ParentPath(p)] : p \in LongPaths(descriptor)}

C9_OneEdgePerParent ==
    pc = "done" =>
        \A i \in 1..Len(descriptors) :
            LET D == descriptors[i]
            IN  /\ {mesh_dag[r].parent : r \in RowsOf(D.unique_identifier)}
                       = ResolvedParents(D)
                /\ Cardinality(RowsOf(D.unique_identifier))
                       = Cardinality(ResolvedParents(D))

\* Two paths of one descriptor resolve to the same parent, and a descriptor
\* with a path of length 1 only has no row.
C9_Witness ==
    /\ pc = "done"
    /\ \E i \in 1..Len(descriptors) :
          /\ Cardinality(LongPaths(descriptors[i])) = 2
          /\ Cardinality(RowsOf(descriptors[i].unique_identifier)) = 1
    /\ \E i \in 1..Len(descriptors) :
          /\ LongPaths(descriptors[i]) = {}
          /\ RowsOf(descriptors[i].unique_identifier) = {}

\* C10.  The two records of the example, and the variants of them.
Example ==
    FileOf(<<[mh |-> Some(Water), mn |-> <<D02_012>>],
             [mh |-> None, mn |-> <<D02_012_500>>]>>, 1)
ExampleWithName ==
    FileOf(<<[mh |-> Some(Water), mn |-> <<D02_012>>],
             [mh |-> Some(Water), mn |-> <<D02_012_500>>]>>, 1)
ExampleFromRoot ==
    FileOf(<<[mh |-> Some(Water), mn |-> <<D02>>],
             [mh |-> Some(Water), mn |-> <<D02_012>>]>>, 1)
ExampleSettings ==
    [allowed_root_letters |-> << <<"D">> >>, allowed_mesh_dag_numbers |-> <<D02>>]

Ended == pc \in {"done", "error"}
OneEdge == <<[child |-> UniqueIdentifier(2), parent |-> UniqueIdentifier(1)]>>

----------------------------------------------------------------------------
(* Properties of the enrichers.                                            *)

EnricherClasses == {"CompoundIdEnricher", "SMILESEnricher", "InChIKeyEnricher"}

\* The step is a call of enrich of the enricher of the class.
Called(class) == calls' = Append(calls, class)

\* The entity is a chemical, or a descriptor one of whose paths starts with
\* a subtree code of the chemicals.
Eligible(e) ==
    \/ e.class = "MESHChemical"
    \/ /\ e.class = "MESHDescriptor"
       /\ \E path \in Elements(e.mesh_dag_numbers) : path[1] \in haystack

\* The tables of the three enrichers of the client.
Compounds == enrichment_procedures[1].compound_id_to_mesh
Substances == enrichment_procedures[1].substance_id_to_mesh
Smiles == enrichment_procedures[2].compound_id_to_smiles
InChIs == enrichment_procedures[3].compound_id_to_inchi

\* C13: a call of enrich of any of the three enrichers leaves an entity
\* that is not an eligible MaybeChemical as it was, also when its compound
\* id is set and is a key of the table of the enricher.
C13_NoopUnlessChemical ==
    [][\A class \in EnricherClasses :
          (Called(class) /\ ~Eligible(Get(entity))) => entity' = entity]_vars

\* C14: a call of the SMILES or of the InChIKey enricher on an entity whose
\* compound id is unset changes nothing, so smiles, inchi and inchikey stay
\* unset; and after the SMILES enricher and then the compound-id enricher
\* on a fresh entity smiles is unset.
C14_NothingWithoutCompoundId ==
    [][/\ \A class \in {"SMILESEnricher", "InChIKeyEnricher"} :
            (/\ Called(class)
             /\ isinstance_MaybeChemical(Get(entity))
             /\ Get(entity).compound_id = None)
            => /\ entity' = entity
               /\ Get(entity').smiles = None
               /\ Get(entity').inchi = None
               /\ Get(entity').inchikey = None
       /\ (/\ calls' = <<"SMILESEnricher", "CompoundIdEnricher">>
           /\ isinstance_MaybeChemical(Get(entity')))
          => Get(entity').smiles = None]_vars

C14_Witness ==
    /\ calls = <<"SMILESEnricher", "CompoundIdEnricher">>
    /\ DOMAIN Smiles # {}
    /\ Eligible(Get(entity))
    /\ Get(entity).compound_id = Some(962)
    /\ Get(entity).smiles = None

\* The chemistry fields of an entity.
ChemistryFields == {"compound_id", "substance_id", "smiles", "inchi", "inchikey"}
Kept(fields) == \A f \in fields : Get(entity')[f] = Get(entity)[f]

\* C15: a call of enrich raises nothing, and a lookup that misses changes
\* nothing: the compound-id enricher leaves compound_id (substance_id) as it
\* was when the name is not a key of the compound (substance) table, and
\* never touches the other fields; the SMILES and the InChIKey enricher
\* leave the entity as it was when its compound id is not a key of the
\* table.
C15_MissChangesNothing ==
    [][\A class \in EnricherClasses :
          (Called(class) /\ isinstance_MaybeChemical(Get(entity))) =>
             LET e == Get(entity)
             IN  /\ pc' = "client"
                 /\ error' = NoError
                 /\ class = "CompoundIdEnricher" =>
                       /\ e.name \notin DOMAIN Compounds => Kept({"compound_id"})
                       /\ e.name \notin DOMAIN Substances => Kept({"substance_id"})
                       /\ Kept({"smiles", "inchi", "inchikey"})
                 /\ (/\ class = "SMILESEnricher"
                     /\ e.compound_id # None
                     /\ Get(e.compound_id) \notin DOMAIN Smiles)
                    => Kept(ChemistryFields)
                 /\ (/\ class = "InChIKeyEnricher"
                     /\ e.compound_id # None
                     /\ Get(e.compound_id) \notin DOMAIN InChIs)
                    => Kept(ChemistryFields)]_vars

\* A set field was kept by a lookup that missed: the compound id the client
\* set, by the compound-id enricher and by the SMILES enricher.
C15_Witness ==
    /\ calls = <<"set_compound_id", "CompoundIdEnricher", "SMILESEnricher">>
    /\ Eligible(Get(entity))
    /\ Get(entity).name \notin DOMAIN Compounds
    /\ Get(entity).compound_id = Some(280)
    /\ DOMAIN Smiles # {}
    /\ Get(entity).smiles = None

\* C16: the compound-id enricher, called on an eligible entity, sets
\* compound_id to the value of the compound table for the name of the
\* entity when the name is a key of it and leaves it otherwise, and the same
\* for substance_id and the substance table; a chemical named Water, with
\* the compound table Water -> 962 and a SMILES table without 962, has
\* the compound id 962 and no smiles after the two enrichers.
C16_IdsByExactName ==
    [][/\ (Called("CompoundIdEnricher") /\ Eligible(Get(entity))) =>
            LET e == Get(entity)
            IN  /\ Get(entity').compound_id =
                       IF e.name \in DOMAIN Compounds
                       THEN Some(Compounds[e.name]) ELSE e.compound_id
                /\ Get(entity').substance_id =
                       IF e.name \in DOMAIN Substances
                       THEN Some(Substances[e.name]) ELSE e.substance_id
       /\ (/\ calls' = <<"CompoundIdEnricher", "SMILESEnricher">>
           /\ Get(entity').class = "MESHChemical"
           /\ Get(entity').name = Water
           /\ Water \in DOMAIN Compounds
           /\ Compounds[Water] = 962
           /\ 962 \notin DOMAIN Smiles)
          => /\ Get(entity').compound_id = Some(962)
             /\ Get(entity').smiles = None]_vars

\* The example, and an entity that got one id without the other.
C16_Witness ==
    /\ calls = <<"CompoundIdEnricher", "SMILESEnricher">>
    /\ Get(entity).class = "MESHChemical"
    /\ Get(entity).name = Water
    /\ Get(entity).compound_id = Some(962)
    /\ Get(entity).substance_id = None
    /\ DOMAIN Smiles = {}
    /\ Get(entity).smiles = None

----------------------------------------------------------------------------
(* Properties of the chemical extractor and of the membership edges.       *)

\* The rows from the chemicals to the descriptors have been made.
MembershipBuilt ==
    \/ pc \in {"lookup", "edges", "done"}
    \/ pc = "error" /\ error.at = "Dataset.build"

\* The identifiers a chemical refers to, and the rows of a chemical.
ReferredBy(chemical) ==
    Elements(chemical.descriptors) \cup Elements(chemical.pharmacological_actions)
MembershipRows(chemical) ==
    {r \in 1..Len(chemicals_to_descriptors) :
        chemicals_to_descriptors[r].chemical = chemical.unique_identifier}

\* C11: once the membership rows are made, a chemical has a row to an
\* identifier of its heading list or of its pharmacological actions exactly
\* when the identifier is that of a descriptor of the build, every row is
\* such a row, and a chemical whose one HM value is D000001/Q000005-AB and
\* that has no PA value has the one row to D000001 when D000001 is a
\* descriptor of the build.
C11_MembershipIffRetained ==
    MembershipBuilt =>
        /\ \A i \in 1..Len(chemicals) : \A X \in ReferredBy(chemicals[i]) :
              (\E r \in MembershipRows(chemicals[i]) :
                   chemicals_to_descriptors[r].descriptor = X)
                  <=> X \in UniqueIdentifiers
        /\ \A r \in 1..Len(chemicals_to_descriptors) :
              \E i \in 1..Len(chemicals) :
                  /\ chemicals_to_descriptors[r].chemical = chemicals[i].unique_identifier
                  /\ chemicals_to_descriptors[r].descriptor \in ReferredBy(chemicals[i])
        /\ \A i \in 1..Len(chemicals) :
              (/\ HM \in DOMAIN yielded[i].record
               /\ yielded[i].record[HM] = <<HMValues.example>>
               /\ PA \notin DOMAIN yielded[i].record
               /\ Identifier("D", 1) \in UniqueIdentifiers)
              => /\ Cardinality(MembershipRows(chemicals[i])) = 1
                 /\ \A r \in MembershipRows(chemicals[i]) :
                       chemicals_to_descriptors[r].descriptor = Identifier("D", 1)

\* The example has its one row, and an identifier of a descriptor that was
\* not kept has none.
C11_Witness ==
    /\ pc = "done"
    /\ Len(chemicals) = 2
    /\ HM \in DOMAIN yielded[1].record
    /\ yielded[1].record[HM] = <<HMValues.example>>
    /\ Cardinality(MembershipRows(chemicals[1])) = 1
    /\ chemicals[2].pharmacological_actions = <<Identifier("D", 2)>>
    /\ Identifier("D", 2) \notin UniqueIdentifiers
    /\ MembershipRows(chemicals[2]) = {}

\* The pieces of an HM value between its slashes, in order, and the token
\* of a piece: the piece up to its first hyphen, without the stars and
\* spaces at its ends.
Cuts(value) == {0, Len(value) + 1} \cup {i \in 1..Len(value) : value[i] = "/"}
KthCut(value, k) ==
    CHOOSE c \in Cuts(value) : Cardinality({d \in Cuts(value) : d < c}) = k - 1
Piece(value, k) == SubSeq(value, KthCut(value, k) + 1, KthCut(value, k + 1) - 1)
Token(piece) ==
    LET hyphens == {i \in 1..Len(piece) : piece[i] = "-"}
        cut == IF hyphens = {} THEN piece
               ELSE SubSeq(piece, 1, (CHOOSE i \in hyphens : \A j \in hyphens : i <= j) - 1)
        inner == {i \in 1..Len(cut) : cut[i] \notin {"*", " "}}
    IN  IF inner = {} THEN <<>>
        ELSE SubSeq(cut, CHOOSE i \in inner : \A j \in inner : i <= j,
                         CHOOSE i \in inner : \A j \in inner : j <= i)

RECURSIVE Tokens(_)
Tokens(values) ==
    IF values = <<>> THEN <<>>
    ELSE [k \in 1..(Cardinality(Cuts(Head(values))) - 1) |->
              Token(Piece(Head(values), k))]
         \o Tokens(Tail(values))

IsDescriptorToken(token) == Len(token) > 0 /\ token[1] = "D"
IsQualifierToken(token) == Len(token) > 0 /\ token[1] = "Q"

\* C12: when the extractor takes a record of type C that has a name, and
\* every token of its HM values starts with Q or with D, the chemical is
\* made with the tokens that start with D, in their order, as its
\* descriptors; when some token starts with neither, the empty token
\* included, the extraction ends with a ValueError and no chemical is made.
C12_HeadingTokens ==
    [][(/\ pc = "yield"
        /\ reader = "MESHChemicalsReader"
        /\ yielded[Len(yielded)].record_type = Some(<<"C">>)
        /\ NM \in DOMAIN yielded[Len(yielded)].record) =>
           LET rec == yielded[Len(yielded)].record
               tokens == Tokens(IF HM \in DOMAIN rec THEN rec[HM] ELSE <<>>)
           IN  IF \A t \in Elements(tokens) : IsDescriptorToken(t) \/ IsQualifierToken(t)
               THEN /\ pc' = "resume"
                    /\ Len(chemicals') = Len(chemicals) + 1
                    /\ chemicals'[Len(chemicals')].descriptors =
                           SelectSeq(tokens, IsDescriptorToken)
               ELSE /\ pc' = "error"
                    /\ error' = Raised("ValueError", "MESHChemicalsReader")
                    /\ chemicals' = chemicals]_vars

\* A chemical was made of the values D000002/ *D000001 and D000009, and
\* the next record, whose HM value ends with a slash, was refused.
C12_Witness ==
    /\ pc = "error"
    /\ error = Raised("ValueError", "MESHChemicalsReader")
    /\ Len(chemicals) = 1
    /\ chemicals[1].descriptors =
           <<Identifier("D", 2), Identifier("D", 1), Identifier("D", 9)>>
    /\ HM \in DOMAIN yielded[2].record
    /\ yielded[2].record[HM] = <<HMValues.empty_piece>>

----------------------------------------------------------------------------
(* Properties of the errors of a build and of the states of a record.      *)

\* C17: when the hierarchy rows of a descriptor are made and the parent
\* path of one of its paths of length 2 or more is not a key of the lookup,
\* the build raises an AssertionError there: the descriptor is not passed,
\* and a build that returns has the parent path of every such path of every
\* descriptor in its lookup.
C17_LookupMissAborts ==
    [][/\ (/\ pc = "edges"
           /\ di <= Len(descriptors)
           /\ \E p \in LongPaths(descriptors[di]) :
                  ParentPath(p) \notin DOMAIN mesh_dag_numbers)
          => /\ pc' = "error"
             /\ error' = Raised("AssertionError", "Dataset.build")
             /\ di' = di
       /\ pc' = "done" =>
             \A i \in 1..Len(descriptors') : \A p \in LongPaths(descriptors'[i]) :
                 ParentPath(p) \in DOMAIN mesh_dag_numbers']_vars

C17_Witness ==
    /\ pc = "error"
    /\ error = Raised("AssertionError", "Dataset.build")
    /\ \E p \in LongPaths(descriptors[di]) :
          ParentPath(p) \notin DOMAIN mesh_dag_numbers

\* The tables of a build are complete: every record of the chemicals file
\* gave a chemical, every enricher was applied, every path of a descriptor
\* is in the lookup, every descriptor was dealt with and has a row to the
\* parent of each of its paths, and every chemical has its membership rows.
TablesComplete ==
    /\ file = downloads.chemicals
    /\ Len(chemicals) = Cardinality(SentinelLines)
    /\ ei = Len(enrichment_procedures) + 1
    /\ di = Len(descriptors) + 1
    /\ \A i \in 1..Len(descriptors) :
          /\ \A p \in Elements(descriptors[i].mesh_dag_numbers) :
                Dotted(p) \in DOMAIN mesh_dag_numbers
          /\ \A p \in LongPaths(descriptors[i]) :
                /\ ParentPath(p) \in DOMAIN mesh_dag_numbers
                /\ \E r \in RowsOf(descriptors[i].unique_identifier) :
                      mesh_dag[r].parent = mesh_dag_numbers[ParentPath(p)]
    /\ \A i \in 1..Len(chemicals) :
          \A X \in ReferredBy(chemicals[i]) \cap UniqueIdentifiers :
              \E r \in MembershipRows(chemicals[i]) :
                  chemicals_to_descriptors[r].descriptor = X

\* C18: a build returns only with complete tables and without an error; an
\* error ends it: after an exception nothing is done any more, so no error
\* is caught or retried, and a build that has raised does not return.
C18_NoPartialSuccess ==
    [][/\ pc \notin {"error", "done"}
       /\ (pc' = "error") <=> (error' # NoError)
       /\ (pc' = "done" /\ reader' # "MESHReader") =>
             /\ error' = NoError
             /\ TablesComplete']_vars

\* A build has returned with rows in its two edge tables.
C18_Witness ==
    /\ pc = "done"
    /\ Len(descriptors) = 2
    /\ Len(chemicals) = 2
    /\ chemicals_to_descriptors # <<>>
    /\ mesh_dag # <<>>

\* C19: a line of a record leaves a type that is set and an identifier that
\* is set as they are; the identifier is set only when the type is, and the
\* type is one of C, D, Q; a line that is refused leaves the record as it
\* was; a RECTYPE line is refused when the type is set or its value is not
\* one of C, D, Q, and sets the type otherwise; a UI line is refused when
\* the identifier is set or the type is not.
C19_TypeAndIdentifierOnce ==
    [][(ValueLineRead /\ record # None) =>
          LET r == Get(record)
              line == strip(file[pos])
              isType == startswith(line, RECTYPE \o Separator)
              isUI == startswith(line, UI \o Separator)
              typeValue == SubSeq(line, Len(RECTYPE) + 4, Len(line))
          IN  /\ pc' = "read" =>
                    /\ record' # None
                    /\ r.record_type # None =>
                           Get(record').record_type = r.record_type
                    /\ r.unique_identifier # None =>
                           Get(record').unique_identifier = r.unique_identifier
                    /\ Get(record').unique_identifier # None =>
                           Get(record').record_type # None
                    /\ Get(record').record_type # None =>
                           Get(Get(record').record_type) \in RecordTypes
              /\ pc' = "error" => record' = record
              /\ (isType /\ (r.record_type # None \/ typeValue \notin RecordTypes))
                    => pc' = "error"
              /\ (isType /\ r.record_type = None /\ typeValue \in RecordTypes)
                    => /\ pc' = "read"
                       /\ Get(record').record_type = Some(typeValue)
              /\ (isUI /\ (r.unique_identifier # None \/ r.record_type = None))
                    => pc' = "error"]_vars

\* A second UI line with another value was refused.
C19_Witness ==
    /\ pc = "error"
    /\ record # None
    /\ Get(record).record_type = Some(<<"D">>)
    /\ Get(record).unique_identifier = Some(<<"D", "1">>)
    /\ pos <= Len(file)
    /\ file[pos] = Line(KV(UI, <<"D", "2">>))

\* C20: the iteration over a file without a sentinel line and without a
\* value line, that is an empty file or a file of blank lines, ends
\* normally and has yielded no record.
C20_BlankFileEndsNormally ==
    (/\ reader = "MESHReader"
     /\ \A i \in 1..Len(file) : file[i] = <<NL>>
     /\ Ended)
    => /\ pc = "done"
       /\ yielded = <<>>

----------------------------------------------------------------------------
(* Properties of the enrichment of a build.                                *)

\* The entities of a build, the descriptors before the chemicals; an entity
\* as it was extracted; and an entity after the first k enrichers of the
\* list, in the order of the list.
AllEntities == descriptors \o chemicals

Fresh(e) ==
    [e EXCEPT !.compound_id = None, !.substance_id = None, !.smiles = None,
              !.inchi = None, !.inchikey = None]

RECURSIVE AfterEnrichers(_, _)
AfterEnrichers(e, k) ==
    IF k = 0 THEN e
    ELSE enrich(enrichment_procedures[k], AfterEnrichers(e, k - 1))

ClassAt(k) == enrichment_procedures[k].class

\* C21: while the enrichers run, with enricher ei at entity ej, every entity
\* before ej is as the first ei enrichers of the list make it and every
\* other entity as the first ei - 1 make it; and when the enricher at work
\* is the SMILES or the InChIKey enricher and the compound-id enricher is
\* before it in the list and not after it, the compound id of every entity
\* is the one it has after the whole list.
C21_EnrichersInListOrder ==
    pc = "enrich" =>
        /\ \A i \in 1..Len(AllEntities) :
              AllEntities[i] =
                  AfterEnrichers(Fresh(AllEntities[i]), IF i < ej THEN ei ELSE ei - 1)
        /\ (/\ ei <= Len(enrichment_procedures)
            /\ ClassAt(ei) \in {"SMILESEnricher", "InChIKeyEnricher"}
            /\ \E c \in 1..(ei - 1) : ClassAt(c) = "CompoundIdEnricher"
            /\ \A c \in ei..Len(enrichment_procedures) :
                  ClassAt(c) # "CompoundIdEnricher")
           => \A i \in 1..Len(AllEntities) :
                 AllEntities[i].compound_id =
                     AfterEnrichers(Fresh(AllEntities[i]),
                                    Len(enrichment_procedures)).compound_id

\* The SMILES enricher, second in the list after the compound-id enricher,
\* is done with the descriptors and not with the chemicals, which have
\* their compound ids.
C21_Witness ==
    /\ pc = "enrich"
    /\ ei = 2
    /\ ej = 3
    /\ ClassAt(1) = "CompoundIdEnricher"
    /\ ClassAt(2) = "SMILESEnricher"
    /\ Len(descriptors) = 2
    /\ descriptors[2].smiles = Some("O")
    /\ Len(chemicals) = 2
    /\ chemicals[1].compound_id = Some(962)
    /\ chemicals[1].smiles = None

\* The subtree codes of the chemicals: D and the two digits of one of the
\* numbers.
Digit(n) == (<<"0", "1", "2", "3", "4", "5", "6", "7", "8", "9">>)[n + 1]
Code(letter, n) == <<letter, Digit(n \div 10), Digit(n % 10)>>
ChemicalSubtrees == {Code("D", n) : n \in {1, 2, 3, 4, 5, 6, 8, 9, 10, 12, 13, 20}}
Codes == {Code(letter, n) : letter \in {"A", "D"}, n \in 0..29}

HasChemicalPath(descriptor) ==
    \E p \in Elements(descriptor.mesh_dag_numbers) : p[1] \in ChemicalSubtrees

\* C22: maybe_chemical of a descriptor of a build is true exactly when one
\* of its paths starts with one of D01, D02, D03, D04, D05, D06, D08, D09,
\* D10, D12, D13, D20, and so is that of a descriptor whose one path is a
\* code, or a path under a code, for every code of A00..A29 and D00..D29;
\* maybe_chemical of a chemical is true.
C22_MaybeChemical ==
    /\ \A i \in 1..Len(descriptors) :
          maybe_chemical(descriptors[i]) <=> HasChemicalPath(descriptors[i])
    /\ \A i \in 1..Len(chemicals) : maybe_chemical(chemicals[i])
    /\ \A code \in Codes :
          /\ maybe_chemical(MESHDescriptor(Water, Identifier("D", 1), << <<code>> >>))
                <=> code \in ChemicalSubtrees
          /\ maybe_chemical(MESHDescriptor(Water, Identifier("D", 1),
                                           << <<code, <<"0", "1", "2">> >> >>))
                <=> code \in ChemicalSubtrees
          /\ maybe_chemical(MESHDescriptor(Water, Identifier("D", 1),
                                           << <<D07>>, <<code>> >>))
                <=> code \in ChemicalSubtrees
    /\ ~maybe_chemical(MESHDescriptor(Water, Identifier("D", 1), <<>>))

\* A build has a descriptor that is not a chemical, one that is by one of
\* its two paths, and a chemical.
C22_Witness ==
    /\ pc = "done"
    /\ Len(descriptors) = 2
    /\ descriptors[1].mesh_dag_numbers = << <<D07>> >>
    /\ ~maybe_chemical(descriptors[1])
    /\ descriptors[2].mesh_dag_numbers = << <<D02>>, <<D07, <<"0", "1", "2">> >> >>
    /\ maybe_chemical(descriptors[2])
    /\ Len(chemicals) = 2
    /\ maybe_chemical(chemicals[1])

\* C24: after calls of enrich only, in any order, on an entity that had no
\* chemistry field set, smiles is set only when compound_id is, inchi is
\* set only when compound_id is, and inchi is set exactly when inchikey is.
C24_ChemistryFieldsConsistent ==
    (/\ \A k \in 1..Len(calls) : calls[k] \in EnricherClasses
     /\ isinstance_MaybeChemical(Get(entity)))
    => LET e == Get(entity)
       IN  /\ e.smiles # None => e.compound_id # None
           /\ e.inchi # None => e.compound_id # None
           /\ e.inchi # None <=> e.inchikey # None

C24_Witness ==
    /\ calls = <<"CompoundIdEnricher", "InChIKeyEnricher", "SMILESEnricher">>
    /\ isinstance_MaybeChemical(Get(entity))
    /\ Get(entity).compound_id = Some(962)
    /\ Get(entity).smiles = Some("O")
    /\ Get(entity).inchi # None
    /\ Get(entity).inchikey # None

\* C25: in a build, a descriptor none of whose paths starts with a subtree
\* code of the chemicals has no chemistry field set, whatever the list of
\* the enrichers and their tables.
C25_NonChemicalUntouched ==
    \A i \in 1..Len(descriptors) :
        ~HasChemicalPath(descriptors[i]) =>
            \A f \in ChemistryFields : descriptors[i][f] = None

\* A build with the three enrichers has returned a descriptor that is not
\* a chemical and has the name of the tables, and one that is a chemical.
C25_Witness ==
    /\ pc = "done"
    /\ Len(enrichment_procedures) = 3
    /\ Len(descriptors) = 2
    /\ ~HasChemicalPath(descriptors[1])
    /\ descriptors[1].name = Water
    /\ descriptors[1].compound_id = None
    /\ descriptors[2].compound_id = Some(962)
    /\ descriptors[2].smiles # None
    /\ descriptors[2].inchikey # None

----------------------------------------------------------------------------
(* Properties of the tables of a build.                                    *)

ChemicalIdentifiers == {chemicals[i].unique_identifier : i \in 1..Len(chemicals)}

\* C23: in a build that returns, the chemical of every membership row is
\* the identifier of a chemical of the build and its descriptor that of a
\* descriptor of the build, and the child and the parent of every hierarchy
\* row are identifiers of descriptors of the build.
C23_EdgeEndpointsAreNodes ==
    (pc = "done" /\ reader # "MESHReader") =>
        /\ \A r \in 1..Len(chemicals_to_descriptors) :
              /\ chemicals_to_descriptors[r].chemical \in ChemicalIdentifiers
              /\ chemicals_to_descriptors[r].descriptor \in UniqueIdentifiers
        /\ \A r \in 1..Len(mesh_dag) :
              /\ mesh_dag[r].child \in UniqueIdentifiers
              /\ mesh_dag[r].parent \in UniqueIdentifiers

\* A build has returned one hierarchy row and a membership row, and a
\* chemical that refers to a descriptor that is not kept has no row.
C23_Witness ==
    /\ pc = "done"
    /\ mesh_dag = <<[child |-> Identifier("D", 2), parent |-> Identifier("D", 1)]>>
    /\ Len(chemicals) = 2
    /\ Identifier("D", 9) \in ReferredBy(chemicals[1])
    /\ \E r \in 1..Len(chemicals_to_descriptors) :
          chemicals_to_descriptors[r] =
              [chemical |-> Identifier("C", 1), descriptor |-> Identifier("D", 1)]

\* The descriptors that own a dotted path, by their places in the list, and
\* the identifier of the last of them.
Owners(s) ==
    {i \in 1..Len(descriptors) :
        \E p \in Elements(descriptors[i].mesh_dag_numbers) : Dotted(p) = s}

LastOwner(s) ==
    descriptors[CHOOSE i \in Owners(s) : \A j \in Owners(s) : j <= i].unique_identifier

LookupBuilt ==
    \/ pc \in {"edges", "done"}
    \/ pc = "error" /\ error.at = "Dataset.build"

\* The paths of the descriptor whose parent path is owned by two
\* descriptors or more.
Collided(descriptor) ==
    {p \in LongPaths(descriptor) : Cardinality(Owners(ParentPath(p))) >= 2}

\* The rows appended by the step.
NewRows == SubSeq(mesh_dag', Len(mesh_dag) + 1, Len(mesh_dag'))

\* The loop over the descriptors deals with a descriptor none of whose
\* parent paths is without owner, or owned by the descriptor alone.
EdgesOfResolvable ==
    /\ pc = "edges"
    /\ di <= Len(descriptors)
    /\ \A p \in LongPaths(descriptors[di]) :
          /\ Owners(ParentPath(p)) # {}
          /\ Owners(ParentPath(p)) # {di}

Occurrences(list, X) == Cardinality({k \in 1..Len(list) : list[k] = X})

IsKept(X) == X \in UniqueIdentifiers

\* C27: once the membership rows are made, a chemical has as many rows to
\* a descriptor of the build as the identifier occurs in its heading list
\* and in its pharmacological actions together; its rows follow each other
\* in the table and are, in order, the kept identifiers of the heading list
\* and then the kept identifiers of the pharmacological actions.
C27_OneRowPerOccurrence ==
    MembershipBuilt =>
        \A i \in 1..Len(chemicals) :
            LET c == chemicals[i]
                rows == MembershipRows(c)
                expected == SelectSeq(c.descriptors, IsKept)
                                \o SelectSeq(c.pharmacological_actions, IsKept)
            IN  /\ \A X \in UniqueIdentifiers :
                      Cardinality({r \in rows :
                                      chemicals_to_descriptors[r].descriptor = X})
                          = Occurrences(c.descriptors, X)
                                + Occurrences(c.pharmacological_actions, X)
                /\ Cardinality(rows) = Len(expected)
                /\ rows # {} =>
                      LET first == CHOOSE r \in rows : \A q \in rows : r <= q
                      IN  \A k \in 1..Len(expected) :
                              /\ first + k - 1 \in rows
                              /\ chemicals_to_descriptors[first + k - 1].descriptor
                                     = expected[k]

\* D000001 is twice in the heading list of the first chemical, and D000002
\* in its heading list and in its pharmacological actions.
C27_Witness ==
    /\ pc = "done"
    /\ Len(chemicals) >= 1
    /\ chemicals[1].descriptors =
           <<Identifier("D", 2), Identifier("D", 1), Identifier("D", 1)>>
    /\ chemicals[1].pharmacological_actions = <<Identifier("D", 2)>>
    /\ Len(chemicals_to_descriptors) >= 4
    /\ \A k \in 1..4 :
          chemicals_to_descriptors[k] =
              [chemical |-> chemicals[1].unique_identifier,
               descriptor |-> (<<Identifier("D", 2), Identifier("D", 1),
                                 Identifier("D", 1), Identifier("D", 2)>>)[k]]

====
